---- MODULE Spec2Model ----
(***************************************************************************)
(* A model of the in-memory relational engine of transaction_database.py:  *)
(* Table (rows, primary-key index, uniqueness indexes, insert / update /   *)
(* delete / delete_by_primary_key / get_by_primary_key) and Database       *)
(* (registry of tables, inner_join, inner_join_optimized).                 *)
(*                                                                         *)
(* Every method call is one atomic step, except in SpecThreads, where the  *)
(* request handlers of app.py run Table.insert statement by statement.     *)
(* A call that raises leaves the table exactly as the Python code leaves   *)
(* it at the raise statement, so a handler's partial effects are part of   *)
(* the step.                                                               *)
(***************************************************************************)
EXTENDS Integers, Sequences, FiniteSets, TLC

VARIABLES tables, inflight

vars == <<tables, inflight>>

----------------------------------------------------------------------------
(* Bounds of the model *)

\* rows the tables of the database may hold together
MaxRows == 2
\* request handlers that may be inside Table.insert at once
MaxCallers == 2
\* payloads 1..MaxVal of the INT and TEXT values offered by the callers
MaxVal == 2
\* in the runs on the orders table alone: the rows it holds at most, and
\* the largest number offered
OrderRows == 3
OrderVal == 3

----------------------------------------------------------------------------
(* Python values.  A value is a tagged payload; TEXT payloads are numbered *)
(* strings.  None is Null.                                                 *)

Null == [t |-> "null", v |-> 0]
IntV(n) == [t |-> "int", v |-> n]
StrV(n) == [t |-> "str", v |-> n]
BoolV(b) == [t |-> "bool", v |-> IF b THEN 1 ELSE 0]

\* Python's == and hash identify bool, int and float of the same number
\* (True == 1), so a dict key or set member is the value up to that.
Key(v) == IF v.t \in {"int", "bool", "float"} THEN [t |-> "num", v |-> v.v] ELSE v

PyEq(a, b) == Key(a) = Key(b)

\* isinstance(value, <type of the column>): bool is a subclass of int
TypeMatches(data_type, v) ==
  CASE data_type = "INT" -> v.t \in {"int", "bool"}
    [] data_type = "TEXT" -> v.t = "str"
    [] data_type = "FLOAT" -> v.t \in {"int", "bool", "float"}
    [] data_type = "BOOL" -> v.t = "bool"

----------------------------------------------------------------------------
(* Schemas *)

Column(name, data_type, is_primary_key, is_unique, not_null) ==
  [name |-> name, data_type |-> data_type, is_primary_key |-> is_primary_key,
   is_unique |-> is_unique, not_null |-> not_null]

TableNames == {"users", "orders"}

\* The columns each table is constructed with.
Schema(name) ==
  IF name = "users"
  THEN << Column("id", "INT", TRUE, FALSE, FALSE),
          Column("nick", "TEXT", FALSE, TRUE, FALSE),
          Column("email", "TEXT", FALSE, TRUE, TRUE) >>
  ELSE << Column("id", "INT", TRUE, FALSE, TRUE),
          Column("user_id", "INT", FALSE, FALSE, FALSE) >>

Range(s) == {s[i] : i \in 1..Len(s)}

ColumnNames(S) == {S[i].name : i \in 1..Len(S)}

NoName == "<none>"

\* self.primary_key: the first column flagged primary key, else None
PrimaryKey(S) ==
  IF \E i \in 1..Len(S) : S[i].is_primary_key
  THEN S[CHOOSE i \in 1..Len(S) : S[i].is_primary_key
                   /\ \A j \in 1..(i-1) : ~S[j].is_primary_key].name
  ELSE NoName

IsUniqueColumn(c) == c.is_unique \/ c.is_primary_key

\* self.unique_columns, in schema order
UniqueColumns(S) ==
  LET RECURSIVE Names(_)
      Names(i) == IF i > Len(S) THEN <<>>
                  ELSE (IF IsUniqueColumn(S[i]) THEN <<S[i].name>> ELSE <<>>) \o Names(i+1)
  IN Names(1)

\* the unique columns that have a set in self.unique_indexes
IndexedColumns(S) == Range(UniqueColumns(S)) \ {PrimaryKey(S)}

EmptyDict == [k \in {} |-> 0]

\* Table.__init__
NewTable(name) ==
  [rows |-> <<>>,
   primary_key_index |-> EmptyDict,
   unique_indexes |-> [c \in IndexedColumns(Schema(name)) |-> {}]]

DictSet(d, k, x) == [y \in DOMAIN d \cup {k} |-> IF y = k THEN x ELSE d[y]]
DictDel(d, k) == [y \in DOMAIN d \ {k} |-> d[y]]

----------------------------------------------------------------------------
(* Results of a call *)

Ok(n) == [kind |-> "ok", col |-> "", n |-> n]
Err(kind, col) == [kind |-> kind, col |-> col, n |-> 0]

First(set) == CHOOSE i \in set : \A j \in set : i <= j

----------------------------------------------------------------------------
(* Table.validate_row *)

\* the row with every absent column set to None
Materialize(S, row) ==
  [c \in DOMAIN row \cup ColumnNames(S) |-> IF c \in DOMAIN row THEN row[c] ELSE Null]

\* validate_row without its primary-key check (lines 71-75 left out): the
\* variant the primary-key claims are measured against
ValidateRowNoPkCheck(t, S, row) ==
  LET missing == {i \in 1..Len(S) : S[i].name \notin DOMAIN row /\ S[i].not_null}
      full == Materialize(S, row)
      mistyped == {i \in 1..Len(S) : full[S[i].name] # Null
                                      /\ ~TypeMatches(S[i].data_type, full[S[i].name])}
      pk == PrimaryKey(S)
      ucols == UniqueColumns(S)
      taken == {i \in 1..Len(ucols) :
                  /\ ucols[i] # pk
                  /\ full[ucols[i]] # Null
                  /\ Key(full[ucols[i]]) \in t.unique_indexes[ucols[i]]}
  IN IF missing # {} THEN Err("MissingRequiredColumn", S[First(missing)].name)
     ELSE IF mistyped # {} THEN Err("TypeMismatch", S[First(mistyped)].name)
     ELSE IF taken # {} THEN Err("DuplicateUniqueValue", ucols[First(taken)])
     ELSE Ok(0)

ValidateRow(t, S, row) ==
  LET missing == {i \in 1..Len(S) : S[i].name \notin DOMAIN row /\ S[i].not_null}
      full == Materialize(S, row)
      mistyped == {i \in 1..Len(S) : full[S[i].name] # Null
                                      /\ ~TypeMatches(S[i].data_type, full[S[i].name])}
      pk == PrimaryKey(S)
      ucols == UniqueColumns(S)
      taken == {i \in 1..Len(ucols) :
                  /\ ucols[i] # pk
                  /\ full[ucols[i]] # Null
                  /\ Key(full[ucols[i]]) \in t.unique_indexes[ucols[i]]}
  IN IF missing # {} THEN Err("MissingRequiredColumn", S[First(missing)].name)
     ELSE IF mistyped # {} THEN Err("TypeMismatch", S[First(mistyped)].name)
     ELSE IF pk # NoName /\ Key(full[pk]) \in DOMAIN t.primary_key_index
          THEN Err("DuplicatePrimaryKey", pk)
     ELSE IF taken # {} THEN Err("DuplicateUniqueValue", ucols[First(taken)])
     ELSE Ok(0)

----------------------------------------------------------------------------
(* Table.insert *)

\* the values of the indexed columns of a row that are not None
AddUnique(S, uidx, row) ==
  [c \in DOMAIN uidx |-> IF row[c] # Null THEN uidx[c] \cup {Key(row[c])} ELSE uidx[c]]

\* a removal that leaves the uniqueness indexes as they are
DropUniqueNothing(S, uidx, row) == uidx

DropUnique(S, uidx, row) ==
  [c \in DOMAIN uidx |-> IF row[c] # Null THEN uidx[c] \ {Key(row[c])} ELSE uidx[c]]

\* insert writing the uniqueness indexes before it validates: the variant
\* the atomicity of insert is measured against
TableInsertIndexFirst(t, S, row) ==
  LET full == Materialize(S, row)
      early == [t EXCEPT !.unique_indexes = AddUnique(S, t.unique_indexes, full)]
      v == ValidateRow(t, S, row)
      pk == PrimaryKey(S)
  IN IF v.kind # "ok" THEN [t |-> early, res |-> v]
     ELSE [t |-> [rows |-> Append(t.rows, full),
                  primary_key_index |->
                    IF pk # NoName
                    THEN DictSet(t.primary_key_index, Key(full[pk]), Len(t.rows) + 1)
                    ELSE t.primary_key_index,
                  unique_indexes |-> early.unique_indexes],
           res |-> Ok(1)]

\* insert validating a completed copy and appending the row as it was given
TableInsertAsGiven(t, S, row) ==
  LET v == ValidateRow(t, S, row)
      full == Materialize(S, row)
      pk == PrimaryKey(S)
  IN IF v.kind # "ok" THEN [t |-> t, res |-> v]
     ELSE [t |-> [rows |-> Append(t.rows, row),
                  primary_key_index |->
                    IF pk # NoName
                    THEN DictSet(t.primary_key_index, Key(full[pk]), Len(t.rows) + 1)
                    ELSE t.primary_key_index,
                  unique_indexes |-> AddUnique(S, t.unique_indexes, full)],
           res |-> Ok(1)]

TableInsert(t, S, row) ==
  LET v == ValidateRow(t, S, row)
      full == Materialize(S, row)
      pk == PrimaryKey(S)
  IN IF v.kind # "ok" THEN [t |-> t, res |-> v]
     ELSE [t |-> [rows |-> Append(t.rows, full),
                  primary_key_index |->
                    IF pk # NoName
                    THEN DictSet(t.primary_key_index, Key(full[pk]), Len(t.rows) + 1)
                    ELSE t.primary_key_index,
                  unique_indexes |-> AddUnique(S, t.unique_indexes, full)],
           res |-> Ok(1)]

----------------------------------------------------------------------------
(* Conditions: the caller's predicate on a row.  "*" accepts every row,    *)
(* otherwise the row's value of col is compared with val by ==.            *)

Condition(col, val) == [col |-> col, val |-> val]

Holds(cond, row) == cond.col = "*" \/ PyEq(row[cond.col], cond.val)

\* the positions of the rows a condition accepts, in row order
\* (positions count from 1; Python's row_index is the position minus one)
Matching(rows, cond) ==
  LET RECURSIVE From(_)
      From(i) == IF i > Len(rows) THEN <<>>
                 ELSE (IF Holds(cond, rows[i]) THEN <<i>> ELSE <<>>) \o From(i+1)
  IN From(1)

----------------------------------------------------------------------------
(* Table.update *)

\* new_row = old_row.copy(); new_row.update(updates)
Overlay(row, updates) ==
  [c \in DOMAIN row \cup DOMAIN updates |->
     IF c \in DOMAIN updates THEN updates[c] ELSE row[c]]

\* the type and NOT NULL checks of the assigned columns, in schema order
UpdateCheck(S, updates, new_row) ==
  LET bad == {i \in 1..Len(S) :
                /\ S[i].name \in DOMAIN updates
                /\ IF new_row[S[i].name] # Null
                   THEN ~TypeMatches(S[i].data_type, new_row[S[i].name])
                   ELSE S[i].not_null}
  IN IF bad = {} THEN Ok(0)
     ELSE IF new_row[S[First(bad)].name] # Null
          THEN Err("TypeMismatch", S[First(bad)].name)
          ELSE Err("MissingRequiredColumn", S[First(bad)].name)

\* the primary-key step that adds the new key and leaves the old entry
UpdatePrimaryKeyKeepsOld(S, pkidx, updates, old_row, new_row, row_index) ==
  LET pk == PrimaryKey(S)
  IN IF pk = NoName \/ pk \notin DOMAIN updates
     THEN [idx |-> pkidx, res |-> Ok(0)]
     ELSE IF ~PyEq(new_row[pk], old_row[pk]) /\ Key(new_row[pk]) \in DOMAIN pkidx
     THEN [idx |-> pkidx, res |-> Err("DuplicatePrimaryKey", pk)]
     ELSE IF Key(old_row[pk]) \notin DOMAIN pkidx
     THEN [idx |-> pkidx, res |-> Err("KeyError", pk)]
     ELSE [idx |-> DictSet(pkidx, Key(new_row[pk]), row_index), res |-> Ok(0)]

\* the primary-key step of one row: check, then move the index entry
UpdatePrimaryKey(S, pkidx, updates, old_row, new_row, row_index) ==
  LET pk == PrimaryKey(S)
  IN IF pk = NoName \/ pk \notin DOMAIN updates
     THEN [idx |-> pkidx, res |-> Ok(0)]
     ELSE IF ~PyEq(new_row[pk], old_row[pk]) /\ Key(new_row[pk]) \in DOMAIN pkidx
     THEN [idx |-> pkidx, res |-> Err("DuplicatePrimaryKey", pk)]
     ELSE IF Key(old_row[pk]) \notin DOMAIN pkidx
     THEN [idx |-> pkidx, res |-> Err("KeyError", pk)]
     ELSE [idx |-> DictSet(DictDel(pkidx, Key(old_row[pk])), Key(new_row[pk]), row_index),
           res |-> Ok(0)]

\* the uniqueness steps of one row, one unique column after the other:
\* each column is checked and its index changed before the next is looked at
RECURSIVE UpdateUnique(_, _, _, _, _, _)
UpdateUnique(S, uidx, updates, old_row, new_row, i) ==
  LET ucols == UniqueColumns(S)
      c == ucols[i]
      old_value == old_row[c]
      new_value == new_row[c]
      discarded == IF old_value # Null
                   THEN [uidx EXCEPT ![c] = @ \ {Key(old_value)}] ELSE uidx
      added == IF new_value # Null
               THEN [discarded EXCEPT ![c] = @ \cup {Key(new_value)}] ELSE discarded
  IN IF i > Len(ucols) THEN [idx |-> uidx, res |-> Ok(0)]
     ELSE IF c \notin DOMAIN updates \/ c = PrimaryKey(S) \/ PyEq(old_value, new_value)
     THEN UpdateUnique(S, uidx, updates, old_row, new_row, i + 1)
     ELSE IF new_value # Null /\ Key(new_value) \in uidx[c]
     THEN [idx |-> uidx, res |-> Err("DuplicateUniqueValue", c)]
     ELSE UpdateUnique(S, added, updates, old_row, new_row, i + 1)

\* one matched row: validate, change the indexes, replace the row
UpdateRow(t, S, updates, old_row, row_index) ==
  LET new_row == Overlay(old_row, updates)
      checked == UpdateCheck(S, updates, new_row)
      p == UpdatePrimaryKey(S, t.primary_key_index, updates, old_row, new_row, row_index)
      u == UpdateUnique(S, t.unique_indexes, updates, old_row, new_row, 1)
  IN IF checked.kind # "ok" THEN [t |-> t, res |-> checked]
     ELSE IF p.res.kind # "ok" THEN [t |-> t, res |-> p.res]
     ELSE IF u.res.kind # "ok"
     THEN [t |-> [t EXCEPT !.primary_key_index = p.idx, !.unique_indexes = u.idx],
           res |-> u.res]
     ELSE [t |-> [rows |-> [t.rows EXCEPT ![row_index] = new_row],
                  primary_key_index |-> p.idx,
                  unique_indexes |-> u.idx],
           res |-> Ok(1)]

\* the loop over rows_to_update; old_rows are the copies taken before the loop
RECURSIVE UpdateLoop(_, _, _, _, _, _, _)
UpdateLoop(t, S, updates, old_rows, todo, j, updated_count) ==
  IF j > Len(todo) THEN [t |-> t, res |-> Ok(updated_count)]
  ELSE LET r == UpdateRow(t, S, updates, old_rows[todo[j]], todo[j])
       IN IF r.res.kind # "ok" THEN r
          ELSE UpdateLoop(r.t, S, updates, old_rows, todo, j + 1, updated_count + 1)

TableUpdate(t, S, updates, cond) ==
  UpdateLoop(t, S, updates, t.rows, Matching(t.rows, cond), 1, 0)

----------------------------------------------------------------------------
(* Table.delete and Table.delete_by_primary_key *)

\* removal by moving the last row into the freed position
RemoveAtSwapLast(s, i) ==
  IF i = Len(s) THEN SubSeq(s, 1, Len(s) - 1)
  ELSE SubSeq([s EXCEPT ![i] = s[Len(s)]], 1, Len(s) - 1)

RemoveAt(s, i) == SubSeq(s, 1, i - 1) \o SubSeq(s, i + 1, Len(s))

\* primary_key_index.clear(), then one assignment per row in row order:
\* of two rows with equal keys the later one keeps the entry
Rebuild(S, rows) ==
  LET pk == PrimaryKey(S)
      keys == {Key(rows[i][pk]) : i \in 1..Len(rows)}
  IN [k \in keys |->
        CHOOSE i \in 1..Len(rows) :
          /\ Key(rows[i][pk]) = k
          /\ \A j \in 1..Len(rows) : Key(rows[j][pk]) = k => j <= i]

\* the loop over reversed(rows_to_delete); rows_to_delete holds the row
\* objects found before the loop
RECURSIVE DeleteLoop(_, _, _, _, _)
DeleteLoop(t, S, found, todo, j) ==
  LET pk == PrimaryKey(S)
      row == found[todo[j]]
  IN IF j < 1 THEN [t |-> t, res |-> Ok(Len(todo))]
     ELSE IF pk # NoName /\ Key(row[pk]) \notin DOMAIN t.primary_key_index
     THEN [t |-> t, res |-> Err("KeyError", pk)]
     ELSE DeleteLoop(
            [rows |-> RemoveAt(t.rows, todo[j]),
             primary_key_index |->
               IF pk # NoName THEN DictDel(t.primary_key_index, Key(row[pk]))
               ELSE t.primary_key_index,
             unique_indexes |-> DropUnique(S, t.unique_indexes, row)],
            S, found, todo, j - 1)

TableDelete(t, S, cond) ==
  LET todo == Matching(t.rows, cond)
      r == DeleteLoop(t, S, t.rows, todo, Len(todo))
  IN IF r.res.kind # "ok" \/ PrimaryKey(S) = NoName THEN r
     ELSE [t |-> [r.t EXCEPT !.primary_key_index = Rebuild(S, r.t.rows)], res |-> r.res]

\* delete_by_primary_key without the rebuild of lines 270-275: the entry of
\* the removed row is dropped and the other entries keep their positions
DeleteByPrimaryKeyNoRebuild(t, S, pk_value) ==
  LET row_index == t.primary_key_index[Key(pk_value)]
      row == t.rows[row_index]
  IN IF PrimaryKey(S) = NoName THEN [t |-> t, res |-> Err("NoPrimaryKey", "")]
     ELSE IF Key(pk_value) \notin DOMAIN t.primary_key_index THEN [t |-> t, res |-> Ok(0)]
     ELSE IF row_index > Len(t.rows) THEN [t |-> t, res |-> Err("IndexError", "")]
     ELSE [t |-> [rows |-> RemoveAt(t.rows, row_index),
                  primary_key_index |-> DictDel(t.primary_key_index, Key(pk_value)),
                  unique_indexes |-> DropUnique(S, t.unique_indexes, row)],
           res |-> Ok(1)]

\* the result n is 1 for True and 0 for False
TableDeleteByPrimaryKey(t, S, pk_value) ==
  LET row_index == t.primary_key_index[Key(pk_value)]
      row == t.rows[row_index]
      rows == RemoveAt(t.rows, row_index)
  IN IF PrimaryKey(S) = NoName THEN [t |-> t, res |-> Err("NoPrimaryKey", "")]
     ELSE IF Key(pk_value) \notin DOMAIN t.primary_key_index THEN [t |-> t, res |-> Ok(0)]
     ELSE IF row_index > Len(t.rows) THEN [t |-> t, res |-> Err("IndexError", "")]
     ELSE [t |-> [rows |-> rows,
                  primary_key_index |-> Rebuild(S, rows),
                  unique_indexes |-> DropUnique(S, t.unique_indexes, row)],
           res |-> Ok(1)]

----------------------------------------------------------------------------
(* Table.get_by_primary_key.  The result is <<row>> for a row and <<>> for *)
(* None.                                                                   *)

TableGetByPrimaryKey(t, S, pk_value) ==
  IF PrimaryKey(S) = NoName THEN [rows |-> <<>>, res |-> Err("NoPrimaryKey", "")]
  ELSE IF Key(pk_value) \notin DOMAIN t.primary_key_index THEN [rows |-> <<>>, res |-> Ok(0)]
  ELSE IF t.primary_key_index[Key(pk_value)] > Len(t.rows)
  THEN [rows |-> <<>>, res |-> Err("IndexError", "")]
  ELSE [rows |-> <<t.rows[t.primary_key_index[Key(pk_value)]]>>, res |-> Ok(1)]

----------------------------------------------------------------------------
(* Table.select_all, and the rows a caller holds.  A row is a dict object: *)
(* self.rows.copy() makes a new list of the same objects, and insert       *)
(* appends the caller's own dict.  An item a caller holds is the stored    *)
(* object at a position of self.rows (stored) or a dict of its own.        *)

Item(stored, at, row) == [stored |-> stored, at |-> at, row |-> row]

TableSelectAll(t) == [i \in 1..Len(t.rows) |-> Item(TRUE, i, t.rows[i])]

\* Table.select_where: the rows the condition accepts, in row order
TableSelectWhere(t, cond) ==
  LET found == Matching(t.rows, cond)
  IN [j \in 1..Len(found) |-> Item(TRUE, found[j], t.rows[found[j]])]

\* the caller's mapping once insert has returned normally: the row appended
InsertedItem(t) == Item(TRUE, Len(t.rows), t.rows[Len(t.rows)])

\* item[c] = v, done by the caller: the table after it
WriteItem(t, item, c, v) ==
  IF item.stored THEN [t EXCEPT !.rows[item.at][c] = v] ELSE t

----------------------------------------------------------------------------
(* Table.select_columns *)

Star == "*"

TableSelectColumns(S, rows, columns) ==
  LET unknown == {i \in 1..Len(columns) : columns[i] \notin ColumnNames(S)}
  IN IF columns = <<>> \/ Star \in Range(columns)
     THEN [rows |-> rows, res |-> Ok(Len(rows))]
     ELSE IF unknown # {}
     THEN [rows |-> <<>>, res |-> Err("UnknownColumn", columns[First(unknown)])]
     ELSE [rows |-> [i \in 1..Len(rows) |-> [c \in Range(columns) |-> rows[i][c]]],
           res |-> Ok(Len(rows))]

----------------------------------------------------------------------------
(* Database: registry and joins.  db is self.tables, a dict from the name  *)
(* of each registered table to the table.                                  *)

\* a name of a column of a join result: "<table>.<col>", or the bare col
\* (table = "") a caller may project.  Names hold no "." of their own.
QName(table, col) == [table |-> table, col |-> col]

\* the joined row of one matching pair: the left columns, then the right
\* columns, each under its qualified name; a right column overwrites a left
\* column with the same qualified name and keeps the left one's place
JoinedRow(left_name, LS, left_row, right_name, RS, right_row) ==
  LET lk == [i \in 1..Len(LS) |-> QName(left_name, LS[i].name)]
      rk == [i \in 1..Len(RS) |-> QName(right_name, RS[i].name)]
      fresh == SelectSeq(rk, LAMBDA q : q \notin Range(lk))
      keys == lk \o fresh
  IN [keys |-> keys,
      val |-> [q \in Range(keys) |->
                 IF q \in Range(rk) THEN right_row[q.col] ELSE left_row[q.col]]]

\* key.endswith("." + col) for a bare col; a dotted name ends no key
EndsWith(key, name) == name.table = "" /\ key.col = name.col

\* the "Filter columns if specified" block of both joins
ProjectRow(joined, select_columns) ==
  LET Found(name) == name \in Range(joined.keys)
                     \/ \E i \in 1..Len(joined.keys) : EndsWith(joined.keys[i], name)
      Value(name) ==
        IF name \in Range(joined.keys) THEN joined.val[name]
        ELSE joined.val[joined.keys[First({i \in 1..Len(joined.keys) :
                                             EndsWith(joined.keys[i], name)})]]
      unknown == {i \in 1..Len(select_columns) : ~Found(select_columns[i])}
  IN IF unknown # {}
     THEN [row |-> <<>>, res |-> Err("UnknownColumn", select_columns[First(unknown)].col)]
     ELSE [row |-> [name \in Range(select_columns) |-> Value(name)], res |-> Ok(0)]

\* the result rows are functions from names to values: Python compares
\* dicts without regard to the order of their keys
Project(result, select_columns) ==
  LET projected == [i \in 1..Len(result) |-> ProjectRow(result[i], select_columns)]
      failed == {i \in 1..Len(result) : projected[i].res.kind # "ok"}
  IN IF select_columns = <<>>
     THEN [rows |-> [i \in 1..Len(result) |-> result[i].val], res |-> Ok(Len(result))]
     ELSE IF failed # {} THEN [rows |-> <<>>, res |-> projected[First(failed)].res]
     ELSE [rows |-> [i \in 1..Len(result) |-> projected[i].row], res |-> Ok(Len(result))]

\* the checks without the one of the right column: the first right row
\* read then lacks the key
JoinCheckNoRightColumn(db, left_name, right_name, left_column, right_column) ==
  IF left_name \notin DOMAIN db THEN Err("UnknownTable", left_name)
  ELSE IF right_name \notin DOMAIN db THEN Err("UnknownTable", right_name)
  ELSE IF left_column \notin ColumnNames(Schema(left_name))
  THEN Err("UnknownColumn", left_column)
  ELSE IF right_column \notin ColumnNames(Schema(right_name))
  THEN Err("KeyError", right_column)
  ELSE Ok(0)

\* get_table for both names, then the two column checks
JoinCheck(db, left_name, right_name, left_column, right_column) ==
  IF left_name \notin DOMAIN db THEN Err("UnknownTable", left_name)
  ELSE IF right_name \notin DOMAIN db THEN Err("UnknownTable", right_name)
  ELSE IF left_column \notin ColumnNames(Schema(left_name))
  THEN Err("UnknownColumn", left_column)
  ELSE IF right_column \notin ColumnNames(Schema(right_name))
  THEN Err("UnknownColumn", right_column)
  ELSE Ok(0)

\* the nested loop turned inside out: right rows in order, for each the left
\* rows in order
NestedLoopRightFirst(db, left_name, right_name, left_column, right_column) ==
  LET left_rows == db[left_name].rows
      right_rows == db[right_name].rows
      RECURSIVE Inner(_, _)
      Inner(i, j) ==
        IF i > Len(left_rows) THEN <<>>
        ELSE (IF PyEq(left_rows[i][left_column], right_rows[j][right_column])
              THEN <<JoinedRow(left_name, Schema(left_name), left_rows[i],
                               right_name, Schema(right_name), right_rows[j])>>
              ELSE <<>>) \o Inner(i + 1, j)
      RECURSIVE Outer(_)
      Outer(j) == IF j > Len(right_rows) THEN <<>> ELSE Inner(1, j) \o Outer(j + 1)
  IN Outer(1)

\* the nested loop: left rows in order, for each the right rows in order
NestedLoop(db, left_name, right_name, left_column, right_column) ==
  LET left_rows == db[left_name].rows
      right_rows == db[right_name].rows
      RECURSIVE Inner(_, _)
      Inner(i, j) ==
        IF j > Len(right_rows) THEN <<>>
        ELSE (IF PyEq(left_rows[i][left_column], right_rows[j][right_column])
              THEN <<JoinedRow(left_name, Schema(left_name), left_rows[i],
                               right_name, Schema(right_name), right_rows[j])>>
              ELSE <<>>) \o Inner(i, j + 1)
      RECURSIVE Outer(_)
      Outer(i) == IF i > Len(left_rows) THEN <<>> ELSE Inner(i, 1) \o Outer(i + 1)
  IN Outer(1)

InnerJoin(db, left_name, right_name, left_column, right_column, select_columns) ==
  LET checked == JoinCheck(db, left_name, right_name, left_column, right_column)
  IN IF checked.kind # "ok" THEN [rows |-> <<>>, res |-> checked]
     ELSE Project(NestedLoop(db, left_name, right_name, left_column, right_column),
                  select_columns)

\* one get_by_primary_key per left row; a lookup that raises ends the join
IndexLoop(db, left_name, right_name, left_column) ==
  LET left_rows == db[left_name].rows
      Lookup(i) == TableGetByPrimaryKey(db[right_name], Schema(right_name),
                                        left_rows[i][left_column])
      raised == {i \in 1..Len(left_rows) : Lookup(i).res.kind # "ok"}
      RECURSIVE Outer(_)
      Outer(i) ==
        IF i > Len(left_rows) THEN <<>>
        ELSE (IF Lookup(i).rows # <<>>
              THEN <<JoinedRow(left_name, Schema(left_name), left_rows[i],
                               right_name, Schema(right_name), Lookup(i).rows[1])>>
              ELSE <<>>) \o Outer(i + 1)
  IN IF raised # {} THEN [result |-> <<>>, res |-> Lookup(First(raised)).res]
     ELSE [result |-> Outer(1), res |-> Ok(0)]

InnerJoinOptimized(db, left_name, right_name, left_column, right_column, select_columns) ==
  LET checked == JoinCheck(db, left_name, right_name, left_column, right_column)
      looked == IndexLoop(db, left_name, right_name, left_column)
  IN IF checked.kind # "ok" THEN [rows |-> <<>>, res |-> checked]
     ELSE IF PrimaryKey(Schema(right_name)) # right_column
     THEN InnerJoin(db, left_name, right_name, left_column, right_column, select_columns)
     ELSE IF looked.res.kind # "ok" THEN [rows |-> <<>>, res |-> looked.res]
     ELSE Project(looked.result, select_columns)

----------------------------------------------------------------------------
(* What the callers offer *)

\* the values offered for a column: its own type's, for a TEXT column also
\* a number, and None unless the column is the primary key
Offered(c) ==
  (IF c.data_type = "TEXT"
   THEN {StrV(v) : v \in 1..MaxVal} \cup {IntV(1)}
   ELSE {IntV(v) : v \in 1..MaxVal})
  \cup (IF c.is_primary_key THEN {} ELSE {Null})

\* every mapping from some of the columns to offered values: the
\* assignment maps passed to update
RowsOver(S) ==
  UNION {{f \in [D -> UNION {Offered(S[i]) : i \in 1..Len(S)}] :
            \A i \in 1..Len(S) : S[i].name \in D => f[S[i].name] \in Offered(S[i])} :
         D \in SUBSET ColumnNames(S)}

Mappings == [n \in TableNames |-> RowsOver(Schema(n))]

\* the rows passed to insert: the callers always give the primary key
InsertRows == [n \in TableNames |->
  {row \in Mappings[n] : PrimaryKey(Schema(n)) \in DOMAIN row}]

\* every row, and the rows with a given value in the first column
Conditions == [n \in TableNames |->
  {Condition("*", Null)} \cup {Condition(Schema(n)[1].name, IntV(v)) : v \in 1..MaxVal}]

PkValues == {IntV(v) : v \in 1..MaxVal} \cup {Null}

UnknownColumn == "zip"

\* the column lists select_columns is asked for
ColumnLists == {<<>>, <<Star>>, <<"id">>, <<"id", UnknownColumn>>}

\* the column lists a join is asked to project: none, a bare name before a
\* qualified one, a name of no column
Selections ==
  {<<>>, <<QName("", "id"), QName("users", "nick")>>, <<QName("", UnknownColumn)>>}

JoinArgs ==
  {a \in [left : TableNames, right : TableNames,
          left_column : {"id", "user_id", UnknownColumn},
          right_column : {"id", "nick", "user_id"},
          select_columns : Selections] :
     /\ a.left_column \in ColumnNames(Schema(a.left)) \cup {UnknownColumn}
     /\ a.right_column \in ColumnNames(Schema(a.right))}

\* the joins asked for with any of the column names on either side and no
\* projection
JoinCalls ==
  [left : TableNames, right : TableNames,
   left_column : {"id", "nick", "user_id", UnknownColumn},
   right_column : {"id", "nick", "user_id", UnknownColumn},
   select_columns : {<<>>}]

----------------------------------------------------------------------------
(* The state machine.  tables is Database.tables.  A call that returns a   *)
(* value or raises without having changed a table leaves the state as it   *)
(* is; what it returns is the value of its operator in that state.         *)

\* Database.__init__
\* the insert calls under way: inflight[p] is where caller p stands in
\* Table.insert, with the table and the row it was called on and its local
\* row_index (a position from 1)
Callers == 1..MaxCallers

Idle == [n |-> "", row |-> EmptyDict, pc |-> "idle", row_index |-> 0]

Init ==
  /\ tables = [n \in {} |-> NewTable(n)]
  /\ inflight = [p \in Callers |-> Idle]

TotalRows == LET RECURSIVE Sum(_)
                 Sum(names) == IF names = {} THEN 0
                               ELSE LET n == CHOOSE m \in names : TRUE
                                    IN Len(tables[n].rows) + Sum(names \ {n})
             IN Sum(DOMAIN tables)

\* create_table without the check of lines 289-290: the new table takes the
\* place of the registered one
DbCreateTableOverwrite(db, n) ==
  [db |-> [m \in DOMAIN db \cup {n} |-> IF m = n THEN NewTable(n) ELSE db[m]],
   res |-> Ok(0)]

DbCreateTable(db, n) ==
  IF n \in DOMAIN db THEN [db |-> db, res |-> Err("DuplicateTable", n)]
  ELSE [db |-> [m \in DOMAIN db \cup {n} |-> IF m = n THEN NewTable(n) ELSE db[m]],
        res |-> Ok(0)]

DbDropTable(db, n) ==
  IF n \notin DOMAIN db THEN [db |-> db, res |-> Err("UnknownTable", n)]
  ELSE [db |-> [m \in DOMAIN db \ {n} |-> db[m]], res |-> Ok(0)]

\* Database.get_table: t is <<table>>, or <<>> when it raises
DbGetTable(db, n) ==
  IF n \notin DOMAIN db THEN [t |-> <<>>, res |-> Err("UnknownTable", n)]
  ELSE [t |-> <<db[n]>>, res |-> Ok(0)]

\* Database.create_table, of a table just constructed
CreateTable(n) == tables' = DbCreateTable(tables, n).db /\ UNCHANGED inflight

\* Database.drop_table
DropTable(n) == tables' = DbDropTable(tables, n).db /\ UNCHANGED inflight

\* the registry after a call of a Table method on db.get_table(n) that
\* leaves the table as r.t; get_table raises for a name not registered
OnTable(db, n, r) == IF n \in DOMAIN db THEN [db EXCEPT ![n] = r.t] ELSE db

Insert(n, row) ==
  LET r == TableInsert(tables[n], Schema(n), row)
  IN /\ n \in DOMAIN tables => (TotalRows < MaxRows \/ r.res.kind # "ok")
     /\ tables' = OnTable(tables, n, r)
     /\ UNCHANGED inflight

Update(n, updates, cond) ==
  LET r == TableUpdate(tables[n], Schema(n), updates, cond)
  IN tables' = OnTable(tables, n, r) /\ UNCHANGED inflight

Delete(n, cond) ==
  LET r == TableDelete(tables[n], Schema(n), cond)
  IN tables' = OnTable(tables, n, r) /\ UNCHANGED inflight

DeleteByPrimaryKey(n, pk_value) ==
  LET r == TableDeleteByPrimaryKey(tables[n], Schema(n), pk_value)
  IN tables' = OnTable(tables, n, r) /\ UNCHANGED inflight

\* the reads change nothing
GetByPrimaryKey(n, pk_value) ==
  /\ n \in DOMAIN tables =>
       TableGetByPrimaryKey(tables[n], Schema(n), pk_value).res.kind
         \in {"ok", "NoPrimaryKey", "IndexError"}
  /\ UNCHANGED vars

Join(a) ==
  /\ InnerJoin(tables, a.left, a.right, a.left_column, a.right_column,
               a.select_columns).res.kind
       \in {"ok", "UnknownTable", "UnknownColumn"}
  /\ UNCHANGED vars

JoinOptimized(a) ==
  /\ InnerJoinOptimized(tables, a.left, a.right, a.left_column, a.right_column,
                        a.select_columns).res.kind
       \in {"ok", "UnknownTable", "UnknownColumn", "IndexError"}
  /\ UNCHANGED vars

Next ==
  \/ \E n \in TableNames : CreateTable(n)
  \/ \E n \in TableNames : DropTable(n)
  \/ \E n \in TableNames : \E row \in InsertRows[n] : Insert(n, row)
  \/ \E n \in TableNames : \E updates \in Mappings[n] : \E cond \in Conditions[n] :
       Update(n, updates, cond)
  \/ \E n \in TableNames : \E cond \in Conditions[n] : Delete(n, cond)
  \/ \E n \in TableNames : \E k \in PkValues : DeleteByPrimaryKey(n, k)
  \/ \E n \in TableNames : \E k \in PkValues : GetByPrimaryKey(n, k)
  \/ \E a \in JoinArgs : Join(a)
  \/ \E a \in JoinArgs : JoinOptimized(a)

Spec == Init /\ [][Next]_vars

----------------------------------------------------------------------------
(* The runs in which every insert and every update returns normally.       *)

InsertOk(n, row) ==
  /\ n \in DOMAIN tables
  /\ TableInsert(tables[n], Schema(n), row).res.kind = "ok"
  /\ Insert(n, row)

UpdateOk(n, updates, cond) ==
  /\ n \in DOMAIN tables
  /\ TableUpdate(tables[n], Schema(n), updates, cond).res.kind = "ok"
  /\ Update(n, updates, cond)

NextSucc ==
  \/ \E n \in TableNames : CreateTable(n)
  \/ \E n \in TableNames : \E row \in InsertRows[n] : InsertOk(n, row)
  \/ \E n \in TableNames : \E updates \in Mappings[n] : \E cond \in Conditions[n] :
       UpdateOk(n, updates, cond)

SpecSucc == Init /\ [][NextSucc]_vars

----------------------------------------------------------------------------
(* The runs of inserts and updates that return normally, over everything a *)
(* caller may pass: None or nothing for the primary key, and True for an   *)
(* INT column.                                                             *)

AnyOffered(c) ==
  Offered(c) \cup {Null} \cup (IF c.data_type = "INT" THEN {BoolV(TRUE)} ELSE {})

AnyRowsOver(S) ==
  UNION {{f \in [D -> UNION {AnyOffered(S[i]) : i \in 1..Len(S)}] :
            \A i \in 1..Len(S) : S[i].name \in D => f[S[i].name] \in AnyOffered(S[i])} :
         D \in SUBSET ColumnNames(S)}

AnyMappings == [n \in TableNames |-> AnyRowsOver(Schema(n))]

InsertAny(n, row) ==
  /\ n \in DOMAIN tables
  /\ TableInsert(tables[n], Schema(n), row).res.kind = "ok"
  /\ Insert(n, row)

UpdateAny(n, updates, cond) ==
  /\ n \in DOMAIN tables
  /\ TableUpdate(tables[n], Schema(n), updates, cond).res.kind = "ok"
  /\ Update(n, updates, cond)

NextAny ==
  \/ \E n \in TableNames : CreateTable(n)
  \/ \E n \in TableNames : \E row \in AnyMappings[n] : InsertAny(n, row)
  \/ \E n \in TableNames : \E updates \in AnyMappings[n] : \E cond \in Conditions[n] :
       UpdateAny(n, updates, cond)

SpecAny == Init /\ [][NextAny]_vars

----------------------------------------------------------------------------
(* The runs made of insert, delete and delete_by_primary_key calls only.   *)

NextNoUpdate ==
  \/ \E n \in TableNames : CreateTable(n)
  \/ \E n \in TableNames : \E row \in InsertRows[n] : Insert(n, row)
  \/ \E n \in TableNames : \E cond \in Conditions[n] : Delete(n, cond)
  \/ \E n \in TableNames : \E pk_value \in PkValues : DeleteByPrimaryKey(n, pk_value)

SpecNoUpdate == Init /\ [][NextNoUpdate]_vars

----------------------------------------------------------------------------
(* The runs in which callers also write to the rows they hold: those that  *)
(* select_all returned and those they passed to insert.                    *)

WriteReturnedRow(n, i, c, v) ==
  /\ n \in DOMAIN tables
  /\ i \in 1..Len(tables[n].rows)
  /\ tables' = [tables EXCEPT
                  ![n] = WriteItem(tables[n], TableSelectAll(tables[n])[i], c, v)]
  /\ UNCHANGED inflight

InsertThenWrite(n, row, c, v) ==
  LET r == TableInsert(tables[n], Schema(n), row)
  IN /\ n \in DOMAIN tables
     /\ r.res.kind = "ok"
     /\ TotalRows < MaxRows
     /\ tables' = [tables EXCEPT ![n] = WriteItem(r.t, InsertedItem(r.t), c, v)]
     /\ UNCHANGED inflight

\* the value a caller writes to column c of a row of table n it holds
Written(n, c) ==
  LET col == Schema(n)[First({k \in 1..Len(Schema(n)) : Schema(n)[k].name = c})]
  IN IF col.data_type = "TEXT" THEN StrV(MaxVal) ELSE IntV(MaxVal)

NextCaller ==
  \/ \E n \in TableNames : CreateTable(n)
  \/ \E n \in TableNames : \E row \in InsertRows[n] : Insert(n, row)
  \/ \E n \in TableNames : \E i \in 1..MaxRows : \E c \in ColumnNames(Schema(n)) :
       WriteReturnedRow(n, i, c, Written(n, c))
  \/ \E n \in TableNames : \E row \in InsertRows[n] : \E c \in ColumnNames(Schema(n)) :
       InsertThenWrite(n, row, c, Written(n, c))

SpecCaller == Init /\ [][NextCaller]_vars

----------------------------------------------------------------------------
(* The runs of inserts whose rows may carry a key that is no column of the *)
(* table, as the rows src/app.py passes do.                                *)

\* the row with the undeclared key added
WithExtraKey(row) ==
  [c \in DOMAIN row \cup {UnknownColumn} |-> IF c = UnknownColumn THEN IntV(1) ELSE row[c]]

ExtraRows == [n \in TableNames |-> InsertRows[n] \cup {WithExtraKey(row) : row \in InsertRows[n]}]

NextExtra ==
  \/ \E n \in TableNames : CreateTable(n)
  \/ \E n \in TableNames : \E row \in ExtraRows[n] : Insert(n, row)

SpecExtra == Init /\ [][NextExtra]_vars

----------------------------------------------------------------------------
(* The runs on the orders table alone, with up to OrderRows rows and keys  *)
(* up to OrderVal, so that a removal can leave rows on both of its sides.  *)

OrderValues == {IntV(v) : v \in 1..OrderVal}

OrderInserts == {[id |-> k, user_id |-> u] : k \in OrderValues, u \in {Null, IntV(1), IntV(2)}}

OrderUpdates == {[id |-> k] : k \in OrderValues} \cup {[user_id |-> u] : u \in {Null, IntV(1)}}

OrderConditions ==
  {Condition("*", Null), Condition("user_id", IntV(1))}
    \cup {Condition("id", k) : k \in OrderValues}

InsertOrder(row) ==
  LET r == TableInsert(tables["orders"], Schema("orders"), row)
  IN /\ "orders" \in DOMAIN tables
     /\ Len(tables["orders"].rows) < OrderRows \/ r.res.kind # "ok"
     /\ tables' = OnTable(tables, "orders", r)
     /\ UNCHANGED inflight

NextOrder ==
  \/ CreateTable("orders")
  \/ \E row \in OrderInserts : InsertOrder(row)
  \/ \E updates \in OrderUpdates : \E cond \in OrderConditions :
       Update("orders", updates, cond)
  \/ \E cond \in OrderConditions : Delete("orders", cond)
  \/ \E pk_value \in OrderValues : DeleteByPrimaryKey("orders", pk_value)

SpecOrder == Init /\ [][NextOrder]_vars

----------------------------------------------------------------------------
(* The runs in which the joins are asked with any column name on either    *)
(* side, between create_table, drop_table, insert and                      *)
(* delete_by_primary_key calls.                                            *)

NextJoin ==
  \/ \E n \in TableNames : CreateTable(n)
  \/ \E n \in TableNames : DropTable(n)
  \/ \E n \in TableNames : \E row \in InsertRows[n] : Insert(n, row)
  \/ \E n \in TableNames : \E pk_value \in PkValues : DeleteByPrimaryKey(n, pk_value)
  \/ \E a \in JoinCalls : Join(a)
  \/ \E a \in JoinCalls : JoinOptimized(a)

SpecJoin == Init /\ [][NextJoin]_vars

----------------------------------------------------------------------------
(* The runs of the request handlers of app.py: app.run serves each request *)
(* on a thread of its own, the handlers share db, and Table.insert holds   *)
(* no lock, so a handler may be suspended between any two statements of    *)
(* insert.  Each action is one statement group of Table.insert.            *)

\* the calls that have passed validate_row and not yet appended their row
Validated == {p \in Callers : inflight[p].pc \in {"validated", "measured"}}

\* line 86: validate_row; a call that raises ends there
InsertValidate(p, n, row) ==
  /\ inflight[p].pc = "idle"
  /\ n \in DOMAIN tables
  /\ TotalRows + Cardinality(Validated) < MaxRows
  /\ inflight' =
       IF ValidateRow(tables[n], Schema(n), row).kind = "ok"
       THEN [inflight EXCEPT ![p] = [n |-> n, row |-> Materialize(Schema(n), row),
                                     pc |-> "validated", row_index |-> 0]]
       ELSE inflight
  /\ UNCHANGED tables

\* line 88: row_index = len(self.rows)
InsertMeasure(p) ==
  /\ inflight[p].pc = "validated"
  /\ inflight' = [inflight EXCEPT ![p].pc = "measured",
                                  ![p].row_index = Len(tables[inflight[p].n].rows) + 1]
  /\ UNCHANGED tables

\* line 89: self.rows.append(row)
InsertAppend(p) ==
  /\ inflight[p].pc = "measured"
  /\ tables' = [tables EXCEPT ![inflight[p].n].rows = Append(@, inflight[p].row)]
  /\ inflight' = [inflight EXCEPT ![p].pc = "appended"]

\* lines 92-94: the primary-key index entry
InsertKey(p) ==
  LET n == inflight[p].n
      pk == PrimaryKey(Schema(n))
  IN /\ inflight[p].pc = "appended"
     /\ tables' = IF pk = NoName THEN tables
                  ELSE [tables EXCEPT ![n].primary_key_index =
                          DictSet(@, Key(inflight[p].row[pk]), inflight[p].row_index)]
     /\ inflight' = [inflight EXCEPT ![p].pc = "keyed"]

\* lines 96-100: the uniqueness indexes; insert then returns normally
InsertUnique(p) ==
  LET n == inflight[p].n
  IN /\ inflight[p].pc = "keyed"
     /\ tables' = [tables EXCEPT ![n].unique_indexes =
                     AddUnique(Schema(n), @, inflight[p].row)]
     /\ inflight' = [inflight EXCEPT ![p] = Idle]

NextThreads ==
  \/ \E n \in TableNames : CreateTable(n)
  \/ \E p \in Callers : \E n \in TableNames : \E row \in InsertRows[n] :
       InsertValidate(p, n, row)
  \/ \E p \in Callers : InsertMeasure(p)
  \/ \E p \in Callers : InsertAppend(p)
  \/ \E p \in Callers : InsertKey(p)
  \/ \E p \in Callers : InsertUnique(p)

SpecThreads == Init /\ [][NextThreads]_vars

----------------------------------------------------------------------------
(* Properties *)

Pk(n) == PrimaryKey(Schema(n))

HasPk(n) == Pk(n) # NoName

Rows(n) == tables[n].rows

ValidationErrors ==
  {"MissingRequiredColumn", "TypeMismatch", "DuplicatePrimaryKey", "DuplicateUniqueValue"}

\* the row a scan of the row sequence finds for a primary key: <<row>> or <<>>
Scan(n, k) ==
  LET hits == {i \in 1..Len(Rows(n)) : PyEq(Rows(n)[i][Pk(n)], k)}
  IN IF hits = {} THEN <<>> ELSE <<Rows(n)[First(hits)]>>

\* C1: for every table with a primary key and every key k, get_by_primary_key(k)
\* returns a row exactly if some stored row's primary-key field equals k, and
\* then the row a full scan finds for k
C1_IndexConsistency ==
  \A n \in DOMAIN tables : HasPk(n) =>
    \A k \in PkValues :
      LET g == TableGetByPrimaryKey(tables[n], Schema(n), k)
      IN g.res.kind = "ok" /\ g.rows = Scan(n, k)

\* C2: in every column flagged unique the values that are not None are
\* pairwise distinct across the stored rows
C2_UniqueValuesDistinct ==
  \A n \in DOMAIN tables : \A c \in 1..Len(Schema(n)) :
    Schema(n)[c].is_unique =>
      \A i, j \in 1..Len(Rows(n)) :
        (i < j /\ Rows(n)[i][Schema(n)[c].name] # Null)
          => ~PyEq(Rows(n)[i][Schema(n)[c].name], Rows(n)[j][Schema(n)[c].name])

\* the table as it is when update attempts the matched row that raises (the
\* table after the whole loop when no row raises)
RECURSIVE WhenAttempted(_, _, _, _, _, _)
WhenAttempted(t, S, updates, old_rows, todo, j) ==
  IF j > Len(todo) THEN t
  ELSE LET r == UpdateRow(t, S, updates, old_rows[todo[j]], todo[j])
       IN IF r.res.kind # "ok" THEN t
          ELSE WhenAttempted(r.t, S, updates, old_rows, todo, j + 1)

\* C3: when update's validation of a matched row fails, the stored rows, the
\* primary-key index and the uniqueness indexes are as they were just before
\* that row was attempted
C3_UpdateRowAtomic ==
  \A n \in DOMAIN tables : \A updates \in Mappings[n] : \A cond \in Conditions[n] :
    LET r == TableUpdate(tables[n], Schema(n), updates, cond)
    IN r.res.kind \in ValidationErrors =>
         r.t = WhenAttempted(tables[n], Schema(n), updates, tables[n].rows,
                             Matching(tables[n].rows, cond), 1)

\* C4: when the right join column is the right table's primary key, inner_join
\* and inner_join_optimized with the same arguments return the same rows in the
\* same order (or raise alike)
C4_JoinEquivalence ==
  \A a \in JoinArgs :
    (a.left \in DOMAIN tables /\ a.right \in DOMAIN tables /\ a.right_column = Pk(a.right))
      => InnerJoin(tables, a.left, a.right, a.left_column, a.right_column,
                   a.select_columns)
         = InnerJoinOptimized(tables, a.left, a.right, a.left_column, a.right_column,
                              a.select_columns)

\* C5: after inserts and updates that all succeed, no two stored rows of a
\* table share a primary-key value (checked under SpecSucc)
C5_PrimaryKeysDistinct ==
  \A n \in DOMAIN tables : HasPk(n) =>
    \A i, j \in 1..Len(Rows(n)) :
      i < j => ~PyEq(Rows(n)[i][Pk(n)], Rows(n)[j][Pk(n)])

\* a table holds two rows, put there by successful calls
C5_TwoRowsStored == \E n \in DOMAIN tables : HasPk(n) /\ Len(Rows(n)) = 2

\* C6: the uniqueness index of every unique column that is not the primary
\* key is exactly the set of values, None apart, the column holds in the rows
C6_UniqueIndexExact ==
  \A n \in DOMAIN tables : \A c \in IndexedColumns(Schema(n)) :
    tables[n].unique_indexes[c]
      = {Key(Rows(n)[i][c]) : i \in {i \in 1..Len(Rows(n)) : Rows(n)[i][c] # Null}}

\* C7: an insert that fails validation leaves the rows, the primary-key index
\* and the uniqueness indexes of the table as they were
C7_InsertAtomic ==
  \A n \in DOMAIN tables : \A row \in Mappings[n] :
    LET r == TableInsert(tables[n], Schema(n), row)
    IN r.res.kind # "ok" => r.t = tables[n]

\* a table on which insert fails for each of the four reasons
C7_InsertFailsEachWay ==
  \E n \in DOMAIN tables : \A kind \in ValidationErrors :
    \E row \in Mappings[n] : TableInsert(tables[n], Schema(n), row).res.kind = kind

\* the row passes the first two checks of validate_row
WellFormed(n, row) ==
  /\ \A i \in 1..Len(Schema(n)) :
       Schema(n)[i].not_null => Schema(n)[i].name \in DOMAIN row
  /\ \A i \in 1..Len(Schema(n)) :
       Schema(n)[i].name \in DOMAIN row /\ row[Schema(n)[i].name] # Null
         => TypeMatches(Schema(n)[i].data_type, row[Schema(n)[i].name])

\* some stored row, position `but` apart, holds value v in column c
HeldBy(n, c, v, but) ==
  \E i \in 1..Len(Rows(n)) : i # but /\ PyEq(Rows(n)[i][c], v)

\* C8: insert of a row (one that passes the missing-column and type checks)
\* whose primary-key value a stored row already holds fails with
\* DuplicatePrimaryKey and adds no row
C8_DuplicatePkInsertFails ==
  \A n \in DOMAIN tables : HasPk(n) =>
    \A row \in Mappings[n] :
      (WellFormed(n, row) /\ HeldBy(n, Pk(n), Materialize(Schema(n), row)[Pk(n)], 0))
        => LET r == TableInsert(tables[n], Schema(n), row)
           IN r.res = Err("DuplicatePrimaryKey", Pk(n)) /\ r.t.rows = Rows(n)

\* the unique columns in which the row would hold a value, not None, that a
\* stored row other than `but` holds
Clashes(n, row, but) ==
  {c \in IndexedColumns(Schema(n)) : row[c] # Null /\ HeldBy(n, c, row[c], but)}

\* C9: an insert, or an update of one row, that would give a unique column a
\* value, not None, that a different stored row holds in that column (and that
\* passes the checks made before the uniqueness check) fails with
\* DuplicateUniqueValue for such a column
C9_DuplicateUniqueFails ==
  \A n \in DOMAIN tables :
    /\ \A row \in Mappings[n] :
         LET full == Materialize(Schema(n), row)
             r == TableInsert(tables[n], Schema(n), row)
         IN (/\ WellFormed(n, row)
             /\ HasPk(n) => ~HeldBy(n, Pk(n), full[Pk(n)], 0)
             /\ Clashes(n, full, 0) # {})
              => r.res.kind = "DuplicateUniqueValue" /\ r.res.col \in Clashes(n, full, 0)
    /\ \A updates \in Mappings[n] : \A cond \in Conditions[n] :
         LET todo == Matching(Rows(n), cond)
             new_row == Overlay(Rows(n)[todo[1]], updates)
             clashes == Clashes(n, new_row, todo[1]) \cap DOMAIN updates
             r == TableUpdate(tables[n], Schema(n), updates, cond)
         IN (/\ Len(todo) = 1
             /\ UpdateCheck(Schema(n), updates, new_row).kind = "ok"
             /\ (HasPk(n) /\ Pk(n) \in DOMAIN updates)
                  => ~HeldBy(n, Pk(n), new_row[Pk(n)], todo[1])
             /\ clashes # {})
              => r.res.kind = "DuplicateUniqueValue" /\ r.res.col \in clashes

\* C10: no stored row holds None in a column declared NOT NULL
C10_NotNullColumnsHold ==
  \A n \in DOMAIN tables : \A c \in 1..Len(Schema(n)) :
    Schema(n)[c].not_null =>
      \A i \in 1..Len(Rows(n)) : Rows(n)[i][Schema(n)[c].name] # Null

\* the primary-key column of table n, as declared
PkColumn(n) ==
  Schema(n)[First({i \in 1..Len(Schema(n)) : Schema(n)[i].name = Pk(n)})]

\* C11: in a table whose primary-key column is declared with the primary-key
\* flag only (not_null left false), no stored row holds None as its primary
\* key (checked under SpecAny, where callers may pass None or no key)
C11_PrimaryKeyNotNull ==
  \A n \in DOMAIN tables : (HasPk(n) /\ ~PkColumn(n).not_null) =>
    \A i \in 1..Len(Rows(n)) : Rows(n)[i][Pk(n)] # Null

\* the type tag a declared type asks of a value: INT whole numbers, TEXT
\* strings, FLOAT whole or fractional numbers, BOOL true/false
HasTag(data_type, v) ==
  CASE data_type = "INT" -> v.t = "int"
    [] data_type = "TEXT" -> v.t = "str"
    [] data_type = "FLOAT" -> v.t \in {"int", "float"}
    [] data_type = "BOOL" -> v.t = "bool"

\* C12: every value, None apart, that successful inserts and updates have
\* stored carries the type tag declared for its column (checked under SpecAny,
\* where callers may pass True for an INT column)
C12_StoredValuesTyped ==
  \A n \in DOMAIN tables : \A c \in 1..Len(Schema(n)) : \A i \in 1..Len(Rows(n)) :
    Rows(n)[i][Schema(n)[c].name] # Null
      => HasTag(Schema(n)[c].data_type, Rows(n)[i][Schema(n)[c].name])

\* C13: when update fails validation on one matched row, every matched row
\* that passes validation on its own (attempted alone on the table as it was
\* before the call) is nevertheless updated
C13_LaterRowsStillUpdated ==
  \A n \in DOMAIN tables : \A updates \in Mappings[n] : \A cond \in Conditions[n] :
    LET todo == Matching(Rows(n), cond)
        r == TableUpdate(tables[n], Schema(n), updates, cond)
    IN r.res.kind \in ValidationErrors =>
         \A j \in 1..Len(todo) :
           UpdateRow(tables[n], Schema(n), updates, Rows(n)[todo[j]], todo[j]).res.kind = "ok"
             => r.t.rows[todo[j]] = Overlay(Rows(n)[todo[j]], updates)

\* C14: in the runs of insert, delete and delete_by_primary_key only
\* (SpecNoUpdate), the primary-key index maps exactly the primary key of each
\* stored row to the row's present position, and a uniqueness index holds only
\* values that stored rows hold
C14_IndexesFollowRemoval ==
  \A n \in DOMAIN tables :
    /\ HasPk(n) =>
         /\ DOMAIN tables[n].primary_key_index
              = {Key(Rows(n)[i][Pk(n)]) : i \in 1..Len(Rows(n))}
         /\ \A i \in 1..Len(Rows(n)) :
              tables[n].primary_key_index[Key(Rows(n)[i][Pk(n)])] = i
    /\ \A c \in IndexedColumns(Schema(n)) :
         tables[n].unique_indexes[c]
           \subseteq {Key(Rows(n)[i][c]) : i \in {i \in 1..Len(Rows(n)) : Rows(n)[i][c] # Null}}

\* a table of two rows from which both removals take the first row, its
\* unique value included, and leave the second row at the first position
C14_FirstRowRemoved ==
  \E n \in DOMAIN tables :
    /\ HasPk(n) /\ Len(Rows(n)) = 2
    /\ \E c \in IndexedColumns(Schema(n)) : Rows(n)[1][c] # Null
    /\ LET d == TableDeleteByPrimaryKey(tables[n], Schema(n), Rows(n)[1][Pk(n)])
           e == TableDelete(tables[n], Schema(n), Condition(Pk(n), Rows(n)[1][Pk(n)]))
       IN /\ d.res = Ok(1) /\ e.res = Ok(1) /\ d.t = e.t
          /\ d.t.rows = <<Rows(n)[2]>>
          /\ d.t.primary_key_index[Key(Rows(n)[2][Pk(n)])] = 1

\* what delete(cond) and delete_by_primary_key(k) make of table n, for every
\* cond and k offered
Removals(n) ==
  {TableDelete(tables[n], Schema(n), cond) : cond \in Conditions[n]}
  \cup {TableDeleteByPrimaryKey(tables[n], Schema(n), k) : k \in PkValues}

\* exactly one of the rows `before` holds v in column c and none of the rows
\* `after` does
OnlyHolderRemoved(before, after, c, v) ==
  /\ Cardinality({i \in 1..Len(before) : PyEq(before[i][c], v)}) = 1
  /\ \A i \in 1..Len(after) : ~PyEq(after[i][c], v)

\* a value of the column's type that no caller offers
Unused(c) == IF c.data_type = "TEXT" THEN StrV(MaxVal + 1) ELSE IntV(MaxVal + 1)

\* the declared column named c of table n
ColumnOf(n, c) ==
  Schema(n)[First({i \in 1..Len(Schema(n)) : Schema(n)[i].name = c})]

\* after the removal d, the row gives column c the value of which the only
\* holder was removed, and is accepted when it gives c an unused value instead
ReusesFreed(n, d, c, row) ==
  /\ d.res.kind = "ok" /\ d.res.n >= 1
  /\ c \in DOMAIN row /\ row[c] # Null
  /\ OnlyHolderRemoved(Rows(n), d.t.rows, c, row[c])
  /\ TableInsert(d.t, Schema(n), [row EXCEPT ![c] = Unused(ColumnOf(n, c))]).res.kind = "ok"

\* C15: after delete or delete_by_primary_key has removed the only row that
\* held a value, None apart, in a unique column or in the primary key, insert
\* of an otherwise valid row with that value in that column succeeds
C15_FreedValueReusable ==
  \A n \in DOMAIN tables : \A d \in Removals(n) :
    \A c \in Range(UniqueColumns(Schema(n))) : \A row \in InsertRows[n] :
      ReusesFreed(n, d, c, row) => TableInsert(d.t, Schema(n), row).res.kind = "ok"

\* a table where a removal frees a primary-key value and a removal frees a
\* unique value, each reused by an insert that is accepted
C15_ValueFreedAndReused ==
  \E n \in DOMAIN tables : \A c \in {Pk(n), "nick"} :
    \E d \in Removals(n) : \E row \in InsertRows[n] :
      /\ c \in Range(UniqueColumns(Schema(n)))
      /\ ReusesFreed(n, d, c, row)
      /\ TableInsert(d.t, Schema(n), row).res.kind = "ok"

\* the error kinds the operations are specified to fail with
SpecifiedErrors ==
  {"UnknownTable", "UnknownColumn", "DuplicateTable", "MissingRequiredColumn",
   "TypeMismatch", "DuplicatePrimaryKey", "DuplicateUniqueValue", "NoPrimaryKey"}

\* how each operation on table n ends, for every argument offered
TableOutcomes(n) ==
  {TableInsert(tables[n], Schema(n), row).res.kind : row \in Mappings[n]}
  \cup {TableUpdate(tables[n], Schema(n), updates, cond).res.kind :
          updates \in Mappings[n], cond \in Conditions[n]}
  \cup {d.res.kind : d \in Removals(n)}
  \cup {TableGetByPrimaryKey(tables[n], Schema(n), k).res.kind : k \in PkValues}
  \cup {TableSelectColumns(Schema(n), Rows(n), columns).res.kind : columns \in ColumnLists}

\* how each operation of the database ends
DatabaseOutcomes ==
  {InnerJoin(tables, a.left, a.right, a.left_column, a.right_column,
             a.select_columns).res.kind : a \in JoinArgs}
  \cup {InnerJoinOptimized(tables, a.left, a.right, a.left_column, a.right_column,
                           a.select_columns).res.kind : a \in JoinArgs}
  \cup {DbCreateTable(tables, n).res.kind : n \in TableNames}
  \cup {DbDropTable(tables, n).res.kind : n \in TableNames}

\* C16: every operation, in every reachable state, returns normally or fails
\* with one of the specified error kinds
C16_OnlySpecifiedErrors ==
  /\ DatabaseOutcomes \subseteq SpecifiedErrors \cup {"ok"}
  /\ \A n \in DOMAIN tables : TableOutcomes(n) \subseteq SpecifiedErrors \cup {"ok"}

\* C17: a caller's write to a field of a row that select_all returned leaves
\* the tables as they are, and a write to the mapping a caller passed to insert
\* leaves the tables as insert left them (checked under SpecCaller)
C17_HeldRowsNotAliased ==
  \A n \in DOMAIN tables : \A c \in ColumnNames(Schema(n)) :
    /\ \A i \in 1..Len(Rows(n)) :
         WriteItem(tables[n], TableSelectAll(tables[n])[i], c, Written(n, c)) = tables[n]
    /\ \A row \in InsertRows[n] :
         LET r == TableInsert(tables[n], Schema(n), row)
         IN r.res.kind = "ok" => WriteItem(r.t, InsertedItem(r.t), c, Written(n, c)) = r.t

\* the pairs <<i, j>> of a left and a right position whose join values are ==
MatchingPairs(a) ==
  {p \in (1..Len(Rows(a.left))) \X (1..Len(Rows(a.right))) :
     PyEq(Rows(a.left)[p[1]][a.left_column], Rows(a.right)[p[2]][a.right_column])}

\* the place of a pair among the matching pairs, by left position and then by
\* right position
Rank(a, p) ==
  1 + Cardinality({q \in MatchingPairs(a) :
                     q[1] < p[1] \/ (q[1] = p[1] /\ q[2] < p[2])})

\* the join calls without projection on two registered tables and two of
\* their columns
PlainJoins ==
  {a \in JoinArgs : /\ a.select_columns = <<>>
                    /\ a.left \in DOMAIN tables /\ a.right \in DOMAIN tables
                    /\ a.left_column \in ColumnNames(Schema(a.left))}

\* C18: inner_join without projection returns one row for each pair of a left
\* and a right row with equal join values and nothing else, the pairs in the
\* order of the left rows and, within a left row, of the right rows
C18_JoinPairsInOrder ==
  \A a \in PlainJoins :
    LET r == InnerJoin(tables, a.left, a.right, a.left_column, a.right_column, <<>>)
    IN /\ r.res.kind = "ok"
       /\ Len(r.rows) = Cardinality(MatchingPairs(a))
       /\ \A p \in MatchingPairs(a) :
            r.rows[Rank(a, p)]
              = JoinedRow(a.left, Schema(a.left), Rows(a.left)[p[1]],
                          a.right, Schema(a.right), Rows(a.right)[p[2]]).val

\* a join in which a left row matches several right rows and several left
\* rows match
C18_SeveralMatches ==
  \E a \in PlainJoins :
    /\ \E p, q \in MatchingPairs(a) : p[1] = q[1] /\ p[2] # q[2]
    /\ \E p, q \in MatchingPairs(a) : p[1] # q[1]
    /\ Rows(a.right)[1] # Rows(a.right)[2]

\* the output row holds, under the qualified name of every column of both
\* tables, the value of that column in the left row and in the right row
CarriesBoth(out, a, left_row, right_row) ==
  /\ \A c \in ColumnNames(Schema(a.left)) :
       QName(a.left, c) \in DOMAIN out /\ out[QName(a.left, c)] = left_row[c]
  /\ \A c \in ColumnNames(Schema(a.right)) :
       QName(a.right, c) \in DOMAIN out /\ out[QName(a.right, c)] = right_row[c]

\* the left positions for which the optimized join finds a right row
LookupHits(a) ==
  {i \in 1..Len(Rows(a.left)) :
     TableGetByPrimaryKey(tables[a.right], Schema(a.right),
                          Rows(a.left)[i][a.left_column]).rows # <<>>}

\* C19: every row that inner_join or inner_join_optimized emits without
\* projection holds every column of the left row under "<left>.c" and every
\* column of the right row under "<right>.c", also when a table is joined
\* with itself
C19_JoinedRowCarriesBoth ==
  \A a \in PlainJoins :
    /\ LET r == InnerJoin(tables, a.left, a.right, a.left_column, a.right_column, <<>>)
       IN \A p \in MatchingPairs(a) :
            CarriesBoth(r.rows[Rank(a, p)], a, Rows(a.left)[p[1]], Rows(a.right)[p[2]])
    /\ LET r == InnerJoinOptimized(tables, a.left, a.right, a.left_column,
                                   a.right_column, <<>>)
       IN (a.right_column = Pk(a.right) /\ r.res.kind = "ok") =>
            \A i \in LookupHits(a) :
              CarriesBoth(r.rows[1 + Cardinality({h \in LookupHits(a) : h < i})], a,
                          Rows(a.left)[i],
                          TableGetByPrimaryKey(tables[a.right], Schema(a.right),
                                               Rows(a.left)[i][a.left_column]).rows[1])

\* the names a projection of the join may use: the qualified name of a column
\* of either table, or the bare name of one
JoinNames(a) ==
  {QName(a.left, c) : c \in ColumnNames(Schema(a.left))}
  \cup {QName(a.right, c) : c \in ColumnNames(Schema(a.right))}
  \cup {QName("", c) : c \in ColumnNames(Schema(a.left)) \cup ColumnNames(Schema(a.right))}

\* C20: inner_join and inner_join_optimized asked to project a name that is
\* neither a qualified nor a bare column name of the two tables fail with
\* UnknownColumn, whatever rows the tables hold
C20_UnknownProjectionFails ==
  \A a \in JoinArgs :
    (/\ a.left \in DOMAIN tables /\ a.right \in DOMAIN tables
     /\ a.left_column \in ColumnNames(Schema(a.left))
     /\ \E k \in 1..Len(a.select_columns) : a.select_columns[k] \notin JoinNames(a))
      => /\ InnerJoin(tables, a.left, a.right, a.left_column, a.right_column,
                      a.select_columns).res.kind = "UnknownColumn"
         /\ InnerJoinOptimized(tables, a.left, a.right, a.left_column, a.right_column,
                               a.select_columns).res.kind = "UnknownColumn"

\* C21: an update of one row (one that passes the type and NOT NULL checks)
\* that would give the row a primary key held by a different stored row fails
\* with DuplicatePrimaryKey and leaves rows and indexes as they were
C21_DuplicatePkUpdateFails ==
  \A n \in DOMAIN tables : HasPk(n) =>
    \A updates \in Mappings[n] : \A cond \in Conditions[n] :
      LET todo == Matching(Rows(n), cond)
          new_row == Overlay(Rows(n)[todo[1]], updates)
          r == TableUpdate(tables[n], Schema(n), updates, cond)
      IN (/\ Len(todo) = 1
          /\ Pk(n) \in DOMAIN updates
          /\ UpdateCheck(Schema(n), updates, new_row).kind = "ok"
          /\ HeldBy(n, Pk(n), new_row[Pk(n)], todo[1]))
           => r.res = Err("DuplicatePrimaryKey", Pk(n)) /\ r.t = tables[n]

\* the updates of exactly one row of table n that return normally: the
\* position of the row and the table afterwards
OneRowUpdates(n) ==
  {[updates |-> updates, at |-> Matching(Rows(n), cond)[1],
    t |-> TableUpdate(tables[n], Schema(n), updates, cond).t] :
     <<updates, cond>> \in
       {uc \in Mappings[n] \X Conditions[n] :
          /\ Len(Matching(Rows(n), uc[2])) = 1
          /\ TableUpdate(tables[n], Schema(n), uc[1], uc[2]).res.kind = "ok"}}

\* the update changed the primary key of its row
ChangedPk(n, u) ==
  /\ HasPk(n) /\ Pk(n) \in DOMAIN u.updates
  /\ ~PyEq(u.t.rows[u.at][Pk(n)], Rows(n)[u.at][Pk(n)])

\* the update changed the value of unique column c of its row from a value
\* that is not None to another that is not None
ChangedUnique(n, u, c) ==
  /\ c \in DOMAIN u.updates
  /\ Rows(n)[u.at][c] # Null /\ u.t.rows[u.at][c] # Null
  /\ ~PyEq(u.t.rows[u.at][c], Rows(n)[u.at][c])

\* C22: after a successful update of one row, the row holds the assigned
\* values; if its primary key changed, get_by_primary_key finds nothing under
\* the old key and the updated row under the new key; if a unique column
\* changed from a to b, an insert reusing a in that column is accepted whenever
\* it is otherwise valid, and every insert with b in that column is rejected
C22_UpdateMovesIndexEntries ==
  \A n \in DOMAIN tables : \A u \in OneRowUpdates(n) :
    /\ u.t.rows[u.at] = Overlay(Rows(n)[u.at], u.updates)
    /\ ChangedPk(n, u) =>
         /\ TableGetByPrimaryKey(u.t, Schema(n), Rows(n)[u.at][Pk(n)]).rows = <<>>
         /\ TableGetByPrimaryKey(u.t, Schema(n), u.t.rows[u.at][Pk(n)]).rows
              = <<u.t.rows[u.at]>>
    /\ \A c \in IndexedColumns(Schema(n)) : ChangedUnique(n, u, c) =>
         \A row \in InsertRows[n] :
           /\ (/\ c \in DOMAIN row /\ PyEq(row[c], Rows(n)[u.at][c])
               /\ TableInsert(u.t, Schema(n),
                              [row EXCEPT ![c] = Unused(ColumnOf(n, c))]).res.kind = "ok")
                => TableInsert(u.t, Schema(n), row).res.kind = "ok"
           /\ (c \in DOMAIN row /\ PyEq(row[c], u.t.rows[u.at][c]))
                => TableInsert(u.t, Schema(n), row).res.kind # "ok"

\* a table on which one update changes the primary key and a unique column
\* of a row together
C22_KeyAndUniqueChanged ==
  \E n \in DOMAIN tables : \E u \in OneRowUpdates(n) :
    /\ ChangedPk(n, u)
    /\ \E c \in IndexedColumns(Schema(n)) : ChangedUnique(n, u, c)

\* C23: an update of one row that assigns the primary key and unique columns
\* the values, None apart, the row already holds returns normally, and
\* afterwards the primary-key index resolves the key to the row and the
\* uniqueness indexes hold the values
C23_SameValueUpdateAccepted ==
  \A n \in DOMAIN tables : \A updates \in Mappings[n] : \A cond \in Conditions[n] :
    LET todo == Matching(Rows(n), cond)
        old_row == Rows(n)[todo[1]]
        r == TableUpdate(tables[n], Schema(n), updates, cond)
    IN (/\ Len(todo) = 1
        /\ DOMAIN updates # {}
        /\ DOMAIN updates \subseteq Range(UniqueColumns(Schema(n)))
        /\ \A c \in DOMAIN updates : updates[c] # Null /\ PyEq(updates[c], old_row[c]))
         => /\ r.res = Ok(1)
            /\ r.t.rows = Rows(n)
            /\ (HasPk(n) /\ Pk(n) \in DOMAIN updates) =>
                 TableGetByPrimaryKey(r.t, Schema(n), old_row[Pk(n)]).rows = <<old_row>>
            /\ \A c \in DOMAIN updates \cap IndexedColumns(Schema(n)) :
                 Key(old_row[c]) \in r.t.unique_indexes[c]

\* C24: delete(condition) returns the number of rows the condition accepts
\* and leaves exactly the other rows, unchanged and in their order
C24_DeleteRemovesMatching ==
  \A n \in DOMAIN tables : \A cond \in Conditions[n] :
    LET r == TableDelete(tables[n], Schema(n), cond)
    IN /\ r.res = Ok(Len(Matching(Rows(n), cond)))
       /\ r.t.rows = SelectSeq(Rows(n), LAMBDA row : ~Holds(cond, row))

\* C25: delete_by_primary_key(k) returns False and changes nothing when no
\* stored row has primary key k; otherwise it returns True and removes the one
\* row with key k, after which get_by_primary_key finds nothing under k and
\* finds every remaining row under its own key
C25_DeleteByKeyRemovesOne ==
  \A n \in DOMAIN tables : HasPk(n) =>
    \A k \in PkValues :
      LET r == TableDeleteByPrimaryKey(tables[n], Schema(n), k)
      IN IF ~HeldBy(n, Pk(n), k, 0)
         THEN r.res = Ok(0) /\ r.t = tables[n]
         ELSE /\ r.res = Ok(1)
              /\ Len(r.t.rows) = Len(Rows(n)) - 1
              /\ r.t.rows = SelectSeq(Rows(n), LAMBDA row : ~PyEq(row[Pk(n)], k))
              /\ TableGetByPrimaryKey(r.t, Schema(n), k).rows = <<>>
              /\ \A i \in 1..Len(r.t.rows) :
                   TableGetByPrimaryKey(r.t, Schema(n), r.t.rows[i][Pk(n)]).rows
                     = <<r.t.rows[i]>>

\* the declared column names of table n, in schema order
AllColumnNames(n) == [i \in 1..Len(Schema(n)) |-> Schema(n)[i].name]

\* C26: select_columns(select_all(), all declared column names) returns the
\* rows of select_all(), row for row (checked under SpecExtra, where inserted
\* rows may carry a key that is no column)
C26_SelectAllColumnsIsSelectAll ==
  \A n \in DOMAIN tables :
    LET all == [i \in 1..Len(Rows(n)) |-> TableSelectAll(tables[n])[i].row]
        r == TableSelectColumns(Schema(n), all, AllColumnNames(n))
    IN r.res.kind = "ok" /\ r.rows = all

\* the rows of a sequence of <<position, row>> pairs
RowsOf(pairs) == [i \in 1..Len(pairs) |-> pairs[i][2]]

\* after is before with some rows left out and the others in their order
KeepsOrder(after, before) ==
  \E keep \in SUBSET (1..Len(before)) :
    after = RowsOf(SelectSeq([i \in 1..Len(before) |-> <<i, before[i]>>],
                             LAMBDA p : p[1] \in keep))

\* C27: the row order is the insertion order (checked under SpecOrder):
\* select_all returns the stored rows and select_where the rows its
\* condition accepts, in stored order; an accepted insert puts its row last
\* and leaves the others in place; update leaves at every position the row
\* that was there or that row with the assignments applied; delete and
\* delete_by_primary_key leave rows that were there, in the order they had
C27_RowOrderKept ==
  "orders" \in DOMAIN tables =>
    LET t == tables["orders"]
        S == Schema("orders")
        all == TableSelectAll(t)
    IN /\ [i \in 1..Len(all) |-> all[i].row] = t.rows
       /\ \A cond \in OrderConditions :
            LET found == TableSelectWhere(t, cond)
            IN [j \in 1..Len(found) |-> found[j].row]
                 = SelectSeq(t.rows, LAMBDA row : Holds(cond, row))
       /\ \A row \in OrderInserts :
            LET r == TableInsert(t, S, row)
            IN r.t.rows = IF r.res.kind = "ok" THEN Append(t.rows, Materialize(S, row))
                          ELSE t.rows
       /\ \A updates \in OrderUpdates : \A cond \in OrderConditions :
            LET r == TableUpdate(t, S, updates, cond)
            IN /\ Len(r.t.rows) = Len(t.rows)
               /\ \A i \in 1..Len(t.rows) :
                    r.t.rows[i] \in {t.rows[i], Overlay(t.rows[i], updates)}
       /\ \A cond \in OrderConditions :
            KeepsOrder(TableDelete(t, S, cond).t.rows, t.rows)
       /\ \A pk_value \in OrderValues :
            KeepsOrder(TableDeleteByPrimaryKey(t, S, pk_value).t.rows, t.rows)

\* three rows stored with the later key first, and a delete that leaves
\* the first and the third
C27_MiddleRowRemoved ==
  /\ "orders" \in DOMAIN tables
  /\ Len(tables["orders"].rows) = 3
  /\ tables["orders"].rows[1]["id"].v > tables["orders"].rows[3]["id"].v
  /\ \E cond \in OrderConditions :
       LET r == TableDelete(tables["orders"], Schema("orders"), cond)
       IN /\ r.res = Ok(1)
          /\ r.t.rows = <<tables["orders"].rows[1], tables["orders"].rows[3]>>

\* C28: when update returns n, exactly n stored rows differ from what they
\* were before the call; when its condition accepts no row it returns 0 and
\* leaves rows and indexes as they were
C28_UpdateCountsChangedRows ==
  \A n \in DOMAIN tables : \A updates \in Mappings[n] : \A cond \in Conditions[n] :
    LET r == TableUpdate(tables[n], Schema(n), updates, cond)
    IN /\ r.res.kind = "ok" =>
            r.res = Ok(Cardinality({i \in 1..Len(Rows(n)) : r.t.rows[i] # Rows(n)[i]}))
       /\ Matching(Rows(n), cond) = <<>> => r.res = Ok(0) /\ r.t = tables[n]

\* what the two joins answer to a call
JoinResults(a) ==
  {InnerJoin(tables, a.left, a.right, a.left_column, a.right_column,
             a.select_columns).res,
   InnerJoinOptimized(tables, a.left, a.right, a.left_column, a.right_column,
                      a.select_columns).res}

JoinsRefuse ==
  \A a \in JoinCalls :
    /\ (a.left \notin DOMAIN tables \/ a.right \notin DOMAIN tables)
         => \A res \in JoinResults(a) : res.kind = "UnknownTable"
    /\ (/\ a.left \in DOMAIN tables /\ a.right \in DOMAIN tables
        /\ \/ a.left_column \notin ColumnNames(Schema(a.left))
           \/ a.right_column \notin ColumnNames(Schema(a.right)))
         => \A res \in JoinResults(a) : res.kind = "UnknownColumn"

\* C29: inner_join and inner_join_optimized fail with UnknownTable when a
\* table name is not registered and with UnknownColumn when both are and a
\* join column is no column of its table; a step that is a join, failed or
\* not, leaves every table as it was (checked under SpecJoin)
C29_JoinsRefuseAndLeaveTables ==
  /\ []JoinsRefuse
  /\ [][\A a \in JoinCalls : (Join(a) \/ JoinOptimized(a)) => UNCHANGED tables]_vars

\* orders is not registered, users holds a row, and a join on users is
\* asked with a right column users does not have
C29_UnknownTableAndColumn ==
  /\ DOMAIN tables = {"users"} /\ Len(tables["users"].rows) > 0
  /\ \E a \in JoinCalls :
       /\ a.left = "users" /\ a.right = "orders"
       /\ \A res \in JoinResults(a) : res.kind = "UnknownTable"
  /\ \E a \in JoinCalls :
       /\ a.left = "users" /\ a.right = "users"
       /\ a.left_column = "id" /\ a.right_column = "user_id"
       /\ \A res \in JoinResults(a) : res.kind = "UnknownColumn"

\* db and after hold the same tables but for the name n
SameButFor(db, after, n) ==
  /\ DOMAIN after \ {n} = DOMAIN db \ {n}
  /\ \A m \in DOMAIN db \ {n} : after[m] = db[m]

RegistryAnswers ==
  \A n \in TableNames :
    LET c == DbCreateTable(tables, n)
        d == DbDropTable(tables, n)
        g == DbGetTable(tables, n)
    IN IF n \in DOMAIN tables
       THEN /\ c.res = Err("DuplicateTable", n) /\ c.db = tables
            /\ g.res.kind = "ok" /\ g.t = <<tables[n]>>
            /\ d.res.kind = "ok" /\ n \notin DOMAIN d.db /\ SameButFor(tables, d.db, n)
       ELSE /\ c.res.kind = "ok" /\ n \in DOMAIN c.db /\ c.db[n] = NewTable(n)
            /\ SameButFor(tables, c.db, n)
            /\ g.res = Err("UnknownTable", n) /\ g.t = <<>>
            /\ d.res = Err("UnknownTable", n) /\ d.db = tables
            /\ \A a \in JoinCalls :
                 (a.left = n \/ a.right = n) =>
                   \A res \in JoinResults(a) : res.kind = "UnknownTable"

\* C30: the registry holds the names created and not since dropped:
\* create_table of a registered name fails with DuplicateTable and keeps the
\* registered table, of another name registers an empty table; get_table,
\* drop_table and the joins fail with UnknownTable on a name not registered;
\* drop_table removes a registered name and nothing else; and the set of
\* registered names changes in create_table and drop_table steps only
C30_RegistryHoldsCreatedNames ==
  /\ []RegistryAnswers
  /\ [][DOMAIN tables' # DOMAIN tables =>
          \E n \in TableNames :
            \/ n \notin DOMAIN tables /\ CreateTable(n)
            \/ n \in DOMAIN tables /\ DropTable(n)]_vars

\* users holds two rows when create_table("users") is refused, and orders
\* is not registered
C30_CreateRefusedOnFilledTable ==
  /\ DOMAIN tables = {"users"} /\ Len(tables["users"].rows) = 2
  /\ DbCreateTable(tables, "users").res.kind = "DuplicateTable"
  /\ DbCreateTable(tables, "users").db["users"].rows = tables["users"].rows
  /\ DbDropTable(tables, "orders").res.kind = "UnknownTable"

\* C31: every stored row has an entry for every column of its table, and
\* an accepted insert stores None for each column its row left out and the
\* given value for every other
C31_RowsHoldEveryColumn ==
  \A n \in DOMAIN tables :
    /\ \A i \in 1..Len(Rows(n)) : ColumnNames(Schema(n)) \subseteq DOMAIN Rows(n)[i]
    /\ \A row \in InsertRows[n] :
         LET r == TableInsert(tables[n], Schema(n), row)
             last == r.t.rows[Len(r.t.rows)]
         IN r.res.kind = "ok" =>
              /\ Len(r.t.rows) = Len(Rows(n)) + 1
              /\ \A c \in ColumnNames(Schema(n)) :
                   /\ c \in DOMAIN last
                   /\ last[c] = IF c \in DOMAIN row THEN row[c] ELSE Null

\* a users row was stored with None for nick, and an orders row leaving
\* user_id out is accepted
C31_OmittedColumnStored ==
  /\ DOMAIN tables = {"users", "orders"}
  /\ \E i \in 1..Len(Rows("users")) : Rows("users")[i]["nick"] = Null
  /\ \E row \in InsertRows["orders"] :
       /\ "user_id" \notin DOMAIN row
       /\ TableInsert(tables["orders"], Schema("orders"), row).res.kind = "ok"

\* C32: of the insert calls under way on one table, no two that have
\* passed validation (and so return normally) carry the same primary-key
\* value (checked under SpecThreads)
C32_SameKeyInsertsExclusive ==
  \A p \in Callers : \A q \in Callers \ {p} :
    (/\ inflight[p].pc # "idle" /\ inflight[q].pc # "idle"
     /\ inflight[p].n = inflight[q].n /\ HasPk(inflight[p].n))
      => Key(inflight[p].row[Pk(inflight[p].n)]) # Key(inflight[q].row[Pk(inflight[q].n)])

\* the place in todo of the matched row update raises on, 0 when none
RECURSIVE RaisesAt(_, _, _, _, _, _)
RaisesAt(t, S, updates, old_rows, todo, j) ==
  IF j > Len(todo) THEN 0
  ELSE LET r == UpdateRow(t, S, updates, old_rows[todo[j]], todo[j])
       IN IF r.res.kind # "ok" THEN j
          ELSE RaisesAt(r.t, S, updates, old_rows, todo, j + 1)

\* C33: when update raises on a matched row, every matched row before it
\* holds the assignments and the indexes hold the primary key it changed
\* to, at its position, and the unique values it changed to; the row raised
\* on, the matched rows
\* after it and the rows not matched are as they were; and the call
\* returns no count
C33_PartialUpdateKept ==
  \A n \in DOMAIN tables : \A updates \in Mappings[n] : \A cond \in Conditions[n] :
    LET todo == Matching(Rows(n), cond)
        r == TableUpdate(tables[n], Schema(n), updates, cond)
        k == RaisesAt(tables[n], Schema(n), updates, Rows(n), todo, 1)
    IN IF k = 0 THEN r.res = Ok(Len(todo))
       ELSE /\ r.res.kind # "ok" /\ r.res.n = 0
            /\ Len(r.t.rows) = Len(Rows(n))
            /\ \A j \in 1..(k - 1) :
                 /\ r.t.rows[todo[j]] = Overlay(Rows(n)[todo[j]], updates)
                 /\ (/\ HasPk(n) /\ Pk(n) \in DOMAIN updates
                     /\ ~PyEq(updates[Pk(n)], Rows(n)[todo[j]][Pk(n)])) =>
                      /\ Key(updates[Pk(n)]) \in DOMAIN r.t.primary_key_index
                      /\ r.t.primary_key_index[Key(updates[Pk(n)])] = todo[j]
                 /\ \A c \in DOMAIN r.t.unique_indexes \cap DOMAIN updates :
                      (updates[c] # Null /\ ~PyEq(updates[c], Rows(n)[todo[j]][c]))
                        => Key(updates[c]) \in r.t.unique_indexes[c]
            /\ \A i \in 1..Len(Rows(n)) :
                 (\A j \in 1..(k - 1) : todo[j] # i) => r.t.rows[i] = Rows(n)[i]

\* C34: every key of a stored row is a column of its table (checked under
\* SpecExtra, where inserted rows may carry a key that is no column), and
\* an update whose assignments name no column of the table adds no key
C34_NoUndeclaredKeys ==
  \A n \in DOMAIN tables :
    /\ \A i \in 1..Len(Rows(n)) : DOMAIN Rows(n)[i] \subseteq ColumnNames(Schema(n))
    /\ \A cond \in Conditions[n] :
         LET r == TableUpdate(tables[n], Schema(n), WithExtraKey(EmptyDict), cond)
         IN \A i \in 1..Len(r.t.rows) : DOMAIN r.t.rows[i] \subseteq ColumnNames(Schema(n))

\* the joins of two registered tables on two of their columns that project
\* the bare name id, a column of every table
BareIdJoins ==
  {[a EXCEPT !.select_columns = <<QName("", "id")>>] : a \in PlainJoins}

\* C35: a join projecting a bare name that is a column of both tables
\* raises no error and gives, for every matching pair, the left row's value
\* under that name, from inner_join and from inner_join_optimized alike
C35_BareNameTakesLeftValue ==
  \A a \in BareIdJoins :
    \A r \in {InnerJoin(tables, a.left, a.right, a.left_column, a.right_column,
                         a.select_columns),
               InnerJoinOptimized(tables, a.left, a.right, a.left_column,
                                  a.right_column, a.select_columns)} :
      /\ r.res.kind = "ok"
      /\ Len(r.rows) = Cardinality(MatchingPairs(a))
      /\ \A p \in MatchingPairs(a) :
           r.rows[Rank(a, p)][QName("", "id")] = Rows(a.left)[p[1]]["id"]

====
